---- MODULE Spec2Model ----
(***************************************************************************)
(* Model of manga_translator/translators/groq.py: the GroqTranslator       *)
(* session (conversation window, usage counters), its _translate loop,     *)
(* the per-string _request_translation call and the reply clean-up.        *)
(*                                                                         *)
(* A text is a sequence of pieces whose concatenation is the Python        *)
(* string.  Texts that the code inspects with replace()/strip() (the       *)
(* provider's reply, the continuation seed) carry one character per piece; *)
(* literal runs that the code only stores, concatenates and forwards (the  *)
(* few-shot pair, the fixed parts of the prompt and of the system          *)
(* template) are one piece each.                                           *)
(***************************************************************************)
EXTENDS Integers, Sequences, FiniteSets, TLC

\* ------------------------------------------------------------------ bounds
MaxContext == 3      \* CONTEXT_LENGTH ranges over 0..MaxContext
MaxCalls   == 2      \* requests issued on one session object
MaxQueries == 2      \* snippets handed to one _translate invocation
MaxUsage   == 2      \* usage.total_tokens of a response ranges over 1..MaxUsage
MaxLen     == 3      \* length of the payloads fed to the clean-up

\* ------------------------------------------------------------ Python helpers
Min(a, b) == IF a < b THEN a ELSE b
Max(a, b) == IF a > b THEN a ELSE b

\* s[start:] for any integer start (note that s[-0:] is s[0:], the whole list)
PySliceFrom(s, start) ==
    LET k == IF start < 0 THEN Max(Len(s) + start, 0) ELSE Min(start, Len(s))
    IN  SubSeq(s, k + 1, Len(s))

\* s[:stop] for any integer stop
PySliceTo(s, stop) ==
    LET k == IF stop < 0 THEN Max(Len(s) + stop, 0) ELSE Min(stop, Len(s))
    IN  SubSeq(s, 1, k)

IsPrefixOf(p, s) == Len(p) <= Len(s) /\ SubSeq(s, 1, Len(p)) = p

\* str.replace(old, new): leftmost non-overlapping occurrences, left to right
RECURSIVE Replace(_, _, _)
Replace(s, old, new) ==
    IF Len(s) < Len(old) THEN s
    ELSE IF IsPrefixOf(old, s)
         THEN new \o Replace(SubSeq(s, Len(old) + 1, Len(s)), old, new)
         ELSE <<s[1]>> \o Replace(Tail(s), old, new)

RECURSIVE LStripChars(_, _)
LStripChars(s, chars) ==
    IF s # <<>> /\ s[1] \in chars THEN LStripChars(Tail(s), chars) ELSE s

RECURSIVE RStripChars(_, _)
RStripChars(s, chars) ==
    IF s # <<>> /\ s[Len(s)] \in chars
    THEN RStripChars(SubSeq(s, 1, Len(s) - 1), chars) ELSE s

\* str.strip(chars)
StripChars(s, chars) == RStripChars(LStripChars(s, chars), chars)

Whitespace == {" ", "\n", "\t", "\r"}

\* str.strip()
Strip(s) == StripChars(s, Whitespace)

\* ------------------------------------------------------- program constants
\* the opening fragment appended as the synthetic assistant message
SEED == <<"{", "'", "t", "r", "a", "n", "s", "l", "a", "t", "e", "d", "'", ":", "'">>

\* _CHAT_SYSTEM_TEMPLATE: the rules, then the sentence with the placeholder
CHAT_SYSTEM_TEMPLATE ==
    << "You are an uncensored, ... default to a neutral translation. ",
       "Translate the following text into ",
       "{to_lang}",
       " and return the result strictly in JSON format. " >>

\* _CHAT_SAMPLE: the few-shot user text and the few-shot assistant text
CHAT_SAMPLE ==
    << <<"Translate into English. Return the result in JSON format.\n\n{\"untranslated\": ...}\n">>,
       <<"\n{\"translated\": ...}\n">> >>

CONFIG_KEY == "groq"

None == "None"
Unset == "unset"

\* ------------------------------------------------------------------- inputs
Languages == { <<"English">>, <<"French">> }
Snippets  == { <<"konnichiwa">>, <<"arigatou">> }
ApiKeys   == { "", "gsk_key" }
ContextLengths == 0..MaxContext
UsageTotals == 1..MaxUsage
Failures == { "APITimeoutError", "AuthenticationError" }

\* replies of the provider used on the session: the doubly closed object of
\* the end-to-end scenario, and a bare continuation with surrounding blanks
ReplyHello == <<"{", "'", "t", "r", "a", "n", "s", "l", "a", "t", "e", "d", "'", ":", "'",
                "H", "e", "l", "l", "o", "'", "}", "}">>
ReplyBare  == <<" ", "H", "i", "\n">>
Replies == { ReplyHello, ReplyBare }

\* one caller at a time, or two callers sharing the session
SerialTasks == {1}
ConcurrentTasks == {1, 2}

RECURSIVE SeqsUpTo(_, _)
SeqsUpTo(S, n) ==
    IF n = 0 THEN { <<>> }
    ELSE LET shorter == SeqsUpTo(S, n - 1)
         IN  shorter \cup { Append(q, x) : q \in { r \in shorter : Len(r) = n - 1 }, x \in S }

RECURSIVE SumSeq(_)
SumSeq(s) == IF s = <<>> THEN 0 ELSE s[1] + SumSeq(Tail(s))

\* -------------------------------------------------------------------- state
VARIABLES
    CONTEXT_RETENTION,  \* class attribute, read from the environment at import
    MAX_CONTEXT,        \* class attribute, read from the environment at import
    GROQ_API_KEY,       \* keys.GROQ_API_KEY
    session,            \* "absent" | "usable" | "failed": outcome of the last construction
    check_groq_key,     \* argument of the last construction
    config,             \* self.config
    token_count,        \* self.token_count
    token_count_last,   \* self.token_count_last
    messages,           \* self.messages, the conversation window
    tasks,              \* the _translate invocations: position and locals
    history,            \* ghost: the window as it would be without trimming
    received,           \* ghost: usage totals of the responses received by this session
    calls,              \* ghost: requests issued by this session
    netFailure,         \* ghost: the last failure raised by the network call
    overlapped,         \* ghost: a request was sent while another one was outstanding
    cl_payload,         \* clean-up harness: the payload T the reply is built around
    cl_shape,           \* clean-up harness: how the reply wraps the payload
    cl_done,            \* clean-up harness: the clean-up has run
    cl_out,             \* clean-up harness: the string returned for the reply
    cl_cleaned,         \* clean-up harness: what line 169 alone makes of the reply
    cl_redone,          \* clean-up harness: line 169 has run on its own result
    cl_again,           \* clean-up harness: what line 169 makes of cl_cleaned
    cf_key,             \* settings harness: the property that is read
    cf_supplied,        \* settings harness: a settings object is supplied
    cf_ns,              \* settings harness: the value under "groq.<key>", if any
    cf_bare,            \* settings harness: the value under "<key>", if any
    cf_other,           \* settings harness: the object holds another property's key
    cf_done,            \* settings harness: the property has been read
    cf_out              \* settings harness: the value the property returned

sessionVars == << session, check_groq_key, config, token_count, token_count_last, messages >>
envVars     == << CONTEXT_RETENTION, MAX_CONTEXT, GROQ_API_KEY >>
ghostVars   == << history, received, calls, netFailure, overlapped >>

\* the _translate invocations that exist
Tasks == DOMAIN tasks
cleanVars   == << cl_payload, cl_shape, cl_done, cl_out, cl_cleaned, cl_redone, cl_again >>
configVars  == << cf_key, cf_supplied, cf_ns, cf_bare, cf_other, cf_done, cf_out >>
vars == << envVars, sessionVars, tasks, ghostVars, cleanVars, configVars >>

\* a message; `by` is a ghost tag: the number of the call that added it (0: constructor)
Msg(role, content, by) == [role |-> role, content |-> content, by |-> by]

\* the locals of one _translate invocation (pc, to_lang, queries, prompt,
\* translations), the request it has outstanding (sent), and ghosts: the number
\* of its current call, the indices of the queries it issued requests for, the
\* replies it got with the prompt each answered and the usage each reported,
\* its outstanding requests, the exception it ended with, the window as it was
\* when the current call began, and the window, the counters and the number of
\* requests as they were when the invocation began
IdleTask == [pc |-> "idle", to_lang |-> <<>>, queries |-> <<>>, prompt |-> <<>>,
             translations |-> <<>>, sent |-> <<>>, call |-> 0, issued |-> <<>>,
             got |-> <<>>, inflight |-> 0, exc |-> None, before |-> <<>>,
             atStart |-> [messages |-> <<>>, token_count |-> 0,
                          token_count_last |-> 0, calls |-> 0]]

\* ------------------------------------------------------------ configuration
\* self.config is None, written <<>>, or a settings object d, written <<d>>:
\* a function from keys (texts) to values
NoConfig == <<>>

\* self._CONFIG_KEY + '.' + key
NsKey(key) == <<CONFIG_KEY, ".">> \o key

\* dict.get(key, default)
DictGet(d, key, default) == IF key \in DOMAIN d THEN d[key] ELSE default

\* variant: the bare key wins over the namespaced one
config_getBareFirst(cfg, key, default) ==
    IF cfg = NoConfig \/ DOMAIN cfg[1] = {} THEN default
    ELSE DictGet(cfg[1], key, DictGet(cfg[1], NsKey(key), default))

\* _config_get: nothing (or nothing in it) gives the default; else the
\* namespaced key, then the bare key, then the default
config_get(cfg, key, default) ==
    IF cfg = NoConfig \/ DOMAIN cfg[1] = {} THEN default
    ELSE DictGet(cfg[1], NsKey(key), DictGet(cfg[1], key, default))

\* the defaults of temperature and top_p, 0.3 and 0.8, in tenths
DEFAULT_TEMPERATURE == 3
DEFAULT_TOP_P == 8

chat_system_template(cfg) == config_get(cfg, <<"chat_system_template">>, CHAT_SYSTEM_TEMPLATE)
chat_sample(cfg) == config_get(cfg, <<"chat_sample">>, CHAT_SAMPLE)
temperature(cfg) == config_get(cfg, <<"temperature">>, DEFAULT_TEMPERATURE)
top_p(cfg) == config_get(cfg, <<"top_p">>, DEFAULT_TOP_P)

\* ------------------------------------------------------------- construction
InitialMessages(cfg) ==
    << Msg("user", chat_sample(cfg)[1], 0), Msg("assistant", chat_sample(cfg)[2], 0) >>

\* variant: the flag is read the wrong way round
MissingKeyInverted(api_key, check) == api_key = "" /\ ~check

\* the condition of the raise in __init__
MissingKey(api_key, check) == api_key = "" /\ check

\* GroqTranslator(check_groq_key): allowed whenever no invocation is running
Construct(check) ==
    /\ \A t \in Tasks : tasks[t].pc \in {"idle", "returned", "raised"}
    /\ check_groq_key' = check
    /\ tasks' = [t \in Tasks |-> IdleTask]
    /\ history' = IF MissingKey(GROQ_API_KEY, check) THEN <<>> ELSE InitialMessages(NoConfig)
    /\ received' = <<>>
    /\ calls' = 0
    /\ netFailure' = None
    /\ overlapped' = FALSE
    /\ IF MissingKey(GROQ_API_KEY, check)
       THEN /\ session' = "failed"
            /\ config' = Unset
            /\ token_count' = Unset
            /\ token_count_last' = Unset
            /\ messages' = Unset
       ELSE /\ session' = "usable"
            /\ token_count' = 0
            /\ token_count_last' = 0
            /\ config' = NoConfig
            /\ messages' = InitialMessages(NoConfig)
    /\ UNCHANGED << envVars, cleanVars, configVars >>

\* parse_args: the settings object is never set
ParseArgs ==
    /\ session = "usable"
    /\ config' = NoConfig
    /\ UNCHANGED << envVars, session, check_groq_key, token_count, token_count_last,
                    messages, tasks, ghostVars, cleanVars, configVars >>

\* ---------------------------------------------------- the per-string call
\* prompt_with_lang: the f-string of _request_translation
PromptWithLang(to_lang, prompt) ==
    <<"Translate the following text into ">> \o to_lang
        \o <<". Return the result in JSON format.\n\n{\"untranslated\": \"">>
        \o prompt \o <<"\"}\n">>

\* self.messages += [user prompt, continuation seed]
AppendTurn(msgs, to_lang, prompt, c) ==
    msgs \o << Msg("user", PromptWithLang(to_lang, prompt), c), Msg("assistant", SEED, c) >>

\* variant: the slice keeps the oldest entries, self.messages[:_MAX_CONTEXT]
TrimWindowKeepsOldest(msgs, maxContext) ==
    IF Len(msgs) > maxContext THEN PySliceTo(msgs, maxContext) ELSE msgs

\* if len(self.messages) > _MAX_CONTEXT: self.messages = self.messages[-_MAX_CONTEXT:]
TrimWindow(msgs, maxContext) ==
    IF Len(msgs) > maxContext THEN PySliceFrom(msgs, -maxContext) ELSE msgs

\* variant: the template is sent as it is, placeholder included
SystemMessageUnsubstituted(cfg, to_lang, c) ==
    Msg("system", chat_system_template(cfg), c)

\* sanity: the system message, the template with {to_lang} replaced
SystemMessage(cfg, to_lang, c) ==
    Msg("system", Replace(chat_system_template(cfg), <<"{to_lang}">>, to_lang), c)

\* messages=sanity + self.messages
RequestMessages(cfg, msgs, to_lang, c) == <<SystemMessage(cfg, to_lang, c)>> \o msgs

\* content = response.choices[0].message.content.strip()
ResponseContent(reply) == Strip(reply)

\* self.messages = self.messages[:-1]
DropLast(msgs) == PySliceTo(msgs, -1)

\* variant: the seed is not removed before the reply is kept
RetainReplyKeepsSeed(msgs, content, retention, c) ==
    IF retention
    THEN msgs \o << Msg("assistant", content, c) >>
    ELSE DropLast(msgs)

\* variant: without retention only the seed is removed, the prompt stays
RetainReplyKeepsPrompt(msgs, content, retention, c) ==
    IF retention
    THEN DropLast(msgs) \o << Msg("assistant", content, c) >>
    ELSE DropLast(msgs)

\* the window after the response: the seed goes; then the reply is kept or
\* one more entry is dropped
RetainReply(msgs, content, retention, c) ==
    IF retention
    THEN DropLast(msgs) \o << Msg("assistant", content, c) >>
    ELSE DropLast(DropLast(msgs))

\* variant: the final strip("'{}") is missing
CleanContentNoStrip(content) ==
    Replace(Replace(Replace(Replace(content, SEED, <<>>),
                            <<"}">>, <<>>),
                    <<"\\", "'">>, <<"'">>),
            <<"\\", "\"">>, <<"\"">>)

\* variant: every backslash is dropped, not only the ones escaping a quote
CleanContentDropsBackslashes(content) ==
    StripChars(
        Replace(Replace(Replace(content, SEED, <<>>),
                        <<"}">>, <<>>),
                <<"\\">>, <<>>),
        {"'", "{", "}"})

\* cleaned_content: the chain of replace() calls and the final strip("'{}")
CleanContent(content) ==
    StripChars(
        Replace(Replace(Replace(Replace(content, SEED, <<>>),
                                <<"}">>, <<>>),
                        <<"\\", "'">>, <<"'">>),
                <<"\\", "\"">>, <<"\"">>),
        {"'", "{", "}"})

\* variant: the new translation is put in front
AppendTranslationFront(translations, response) == <<Strip(response)>> \o translations

\* translations.append(response.strip())
AppendTranslation(translations, response) == Append(translations, Strip(response))

\* neither function has a handler: the failure of the await leaves unchanged
Propagate(e) == e

\* variant: the failure is swallowed and the loop goes on
AfterFailurePcContinues == "loop"

\* ... and ends the invocation
AfterFailurePc == "raised"

\* variant: the loop does not advance past the first prompt
NextIndexStuck(task) == 1

\* for prompt in queries: the position of the next prompt
NextIndex(task) == Len(task.translations) + 1

\* variant: the lifetime counter is overwritten
AddUsageOverwrites(count, usage) == usage

\* self.token_count += response.usage.total_tokens
AddUsage(count, usage) == count + usage

\* variant: the last-call counter accumulates as well
LastUsageAccumulates(count, usage) == count + usage

\* self.token_count_last = response.usage.total_tokens
LastUsage(count, usage) == usage

\* variant: a handler takes the prompt and the seed of the failed call back
AfterFailureWindowRolledBack(msgs) == DropLast(DropLast(msgs))

\* the except-less await: a failure leaves the window as the call made it
AfterFailureWindow(msgs) == msgs

\* variant: every invocation starts from a fresh few-shot window
WindowAtStartReset(msgs) == InitialMessages(NoConfig)

\* _translate does not touch the window before its loop
WindowAtStart(msgs) == msgs

\* a coroutine runs until its await: nobody else moves while one is in its loop
MayRun(t) == \A u \in Tasks \ {t} : tasks[u].pc # "loop"

\* ------------------------------------------------------------- _translate
\* _translate(from_lang, to_lang, queries) is entered
StartTranslate(t, to_lang, queries) ==
    /\ session = "usable"
    /\ MayRun(t)
    /\ tasks[t].pc \in {"idle", "returned", "raised"}
    /\ calls + Len(queries) <= MaxCalls
    /\ messages' = WindowAtStart(messages)
    /\ tasks' = [tasks EXCEPT ![t] = [IdleTask EXCEPT
                    !.pc = "loop", !.to_lang = to_lang, !.queries = queries,
                    !.atStart = [messages |-> messages, token_count |-> token_count,
                                 token_count_last |-> token_count_last, calls |-> calls]]]
    /\ UNCHANGED << envVars, session, check_groq_key, config, token_count,
                    token_count_last, ghostVars, cleanVars, configVars >>

\* the loop takes the next prompt; _request_translation runs up to its await
SendRequest(t) ==
    LET task   == tasks[t]
        i      == NextIndex(task)
        c      == calls + 1
        window == TrimWindow(AppendTurn(messages, task.to_lang, task.queries[i], c), MAX_CONTEXT)
    IN  /\ task.pc = "loop"
        /\ MayRun(t)
        /\ i <= Len(task.queries)
        /\ messages' = window
        /\ tasks' = [tasks EXCEPT ![t] = [task EXCEPT
                        !.pc = "await",
                        !.prompt = task.queries[i],
                        !.call = c,
                        !.before = messages,
                        !.sent = RequestMessages(config, window, task.to_lang, c),
                        !.issued = Append(task.issued, i),
                        !.inflight = task.inflight + 1]]
        /\ calls' = c
        /\ history' = AppendTurn(history, task.to_lang, task.queries[i], c)
        /\ overlapped' = (overlapped \/ \E u \in Tasks \ {t} : tasks[u].pc = "await")
        /\ UNCHANGED << envVars, session, check_groq_key, config, token_count,
                        token_count_last, received, netFailure, cleanVars, configVars >>

\* the await returns a response: counters, window, clean-up, append
ReceiveResponse(t, reply, usage) ==
    LET task    == tasks[t]
        content == ResponseContent(reply)
    IN  /\ task.pc = "await"
        /\ MayRun(t)
        /\ token_count' = AddUsage(token_count, usage)
        /\ token_count_last' = LastUsage(token_count_last, usage)
        /\ messages' = RetainReply(messages, content, CONTEXT_RETENTION, task.call)
        /\ tasks' = [tasks EXCEPT ![t] = [task EXCEPT
                        !.pc = "loop",
                        !.translations = AppendTranslation(task.translations, CleanContent(content)),
                        !.got = Append(task.got, [reply |-> reply, prompt |-> task.prompt,
                                                  usage |-> usage]),
                        !.inflight = task.inflight - 1]]
        /\ received' = Append(received, usage)
        /\ history' = IF CONTEXT_RETENTION
                      THEN SubSeq(history, 1, Len(history) - 1)
                               \o << Msg("assistant", content, task.call) >>
                      ELSE SubSeq(history, 1, Len(history) - 2)
        /\ UNCHANGED << envVars, session, check_groq_key, config, calls, netFailure,
                        overlapped, cleanVars, configVars >>

\* the await raises: the exception leaves _request_translation and _translate
RequestFails(t, e) ==
    LET task == tasks[t]
    IN  /\ task.pc = "await"
        /\ MayRun(t)
        /\ tasks' = [tasks EXCEPT ![t] = [task EXCEPT
                        !.pc = AfterFailurePc,
                        !.exc = Propagate(e),
                        !.inflight = task.inflight - 1]]
        /\ messages' = AfterFailureWindow(messages)
        /\ netFailure' = e
        /\ UNCHANGED << envVars, session, check_groq_key, config, token_count,
                        token_count_last, history, received, calls, overlapped, cleanVars, configVars >>

\* the loop is exhausted: return translations
Return(t) ==
    LET task == tasks[t]
    IN  /\ task.pc = "loop"
        /\ MayRun(t)
        /\ Len(task.translations) = Len(task.queries)
        /\ tasks' = [tasks EXCEPT ![t] = [task EXCEPT !.pc = "returned"]]
        /\ UNCHANGED << envVars, sessionVars, ghostVars, cleanVars, configVars >>

\* ------------------------------------------------------ the clean-up alone
\* what one reply becomes on its way to the caller: line 157, line 169, line 124
CleanedReply(reply) == Strip(CleanContent(ResponseContent(reply)))

Alphabet == {"a", "b", " ", "'", "\"", "\\", "{", "}"}
Hello == <<"H", "e", "l", "l", "o">>
Payloads == SeqsUpTo(Alphabet, MaxLen) \cup {Hello}
Shapes == {"bare", "object", "object}"}

\* the provider reply built around payload T: T itself, {'translated':'T'}
\* or {'translated':'T'}}
Shaped(T, shape) ==
    CASE shape = "bare"    -> T
      [] shape = "object"  -> SEED \o T \o <<"'", "}">>
      [] shape = "object}" -> SEED \o T \o <<"'", "}", "}">>

cl_in == Shaped(cl_payload, cl_shape)

CleanStep ==
    /\ ~cl_done
    /\ cl_done' = TRUE
    /\ cl_out' = CleanedReply(cl_in)
    /\ cl_cleaned' = CleanContent(cl_in)
    /\ UNCHANGED << envVars, sessionVars, tasks, ghostVars, cl_payload, cl_shape,
                    cl_redone, cl_again, configVars >>

\* the clean-up of line 169 applied once more, to its own result
CleanAgain ==
    /\ cl_done
    /\ ~cl_redone
    /\ cl_redone' = TRUE
    /\ cl_again' = CleanContent(cl_cleaned)
    /\ UNCHANGED << envVars, sessionVars, tasks, ghostVars, cl_payload, cl_shape,
                    cl_done, cl_out, cl_cleaned, configVars >>

\* ----------------------------------------------------- the settings alone
ConfigKeys == {"chat_system_template", "chat_sample", "temperature", "top_p"}
ConfigVariants == {1, 2}
Options == { <<>> } \cup { <<v>> : v \in ConfigVariants }

\* a value of the kind the property holds, told apart by slot and variant
ConfiguredValue(key, slot, v) ==
    CASE key = "chat_system_template" -> <<"template set under ", slot, v, "{to_lang}">>
      [] key = "chat_sample"          -> << <<"user sample set under ", slot, v>>,
                                            <<"assistant sample set under ", slot, v>> >>
      [] key = "temperature"          -> (IF slot = "groq.key" THEN 0 ELSE 4) + v
      [] key = "top_p"                -> (IF slot = "groq.key" THEN 4 ELSE 0) + v

\* the namespaced key of some other property
OtherKey(key) == NsKey(<<IF key = "top_p" THEN "temperature" ELSE "top_p">>)

\* the settings object the harness variables describe
Settings ==
    IF ~cf_supplied THEN NoConfig
    ELSE LET keys == (IF cf_ns = <<>> THEN {} ELSE {NsKey(<<cf_key>>)})
                       \cup (IF cf_bare = <<>> THEN {} ELSE {<<cf_key>>})
                       \cup (IF cf_other THEN {OtherKey(cf_key)} ELSE {})
         IN  << [k \in keys |->
                   IF k = NsKey(<<cf_key>>) THEN ConfiguredValue(cf_key, "groq.key", cf_ns[1])
                   ELSE IF k = <<cf_key>> THEN ConfiguredValue(cf_key, "key", cf_bare[1])
                   ELSE 9] >>

\* the four properties
ReadProperty(key, cfg) ==
    CASE key = "chat_system_template" -> chat_system_template(cfg)
      [] key = "chat_sample"          -> chat_sample(cfg)
      [] key = "temperature"          -> temperature(cfg)
      [] key = "top_p"                -> top_p(cfg)

ConfigStep ==
    /\ ~cf_done
    /\ cf_done' = TRUE
    /\ cf_out' = ReadProperty(cf_key, Settings)
    /\ UNCHANGED << envVars, sessionVars, tasks, ghostVars, cleanVars,
                    cf_key, cf_supplied, cf_ns, cf_bare, cf_other >>

\* ------------------------------------------------------------ specification
Init ==
    /\ CONTEXT_RETENTION \in BOOLEAN
    /\ MAX_CONTEXT \in ContextLengths
    /\ GROQ_API_KEY \in ApiKeys
    /\ session = "absent"
    /\ check_groq_key = TRUE
    /\ config = Unset
    /\ token_count = Unset
    /\ token_count_last = Unset
    /\ messages = Unset
    /\ tasks = [t \in SerialTasks |-> IdleTask]
    /\ history = <<>>
    /\ received = <<>>
    /\ calls = 0
    /\ netFailure = None
    /\ overlapped = FALSE
    /\ cl_payload = <<>>
    /\ cl_shape = "bare"
    /\ cl_done = FALSE
    /\ cl_out = <<>>
    /\ cl_cleaned = <<>>
    /\ cl_redone = FALSE
    /\ cl_again = <<>>
    /\ cf_key = "temperature"
    /\ cf_supplied = FALSE
    /\ cf_ns = <<>>
    /\ cf_bare = <<>>
    /\ cf_other = FALSE
    /\ cf_done = FALSE
    /\ cf_out = <<>>

Next ==
    \/ \E check \in BOOLEAN : Construct(check)
    \/ ParseArgs
    \/ \E t \in Tasks, l \in Languages, q \in SeqsUpTo(Snippets, MaxQueries) : StartTranslate(t, l, q)
    \/ \E t \in Tasks : SendRequest(t)
    \/ \E t \in Tasks, r \in Replies, u \in UsageTotals : ReceiveResponse(t, r, u)
    \/ \E t \in Tasks, e \in Failures : RequestFails(t, e)
    \/ \E t \in Tasks : Return(t)

Spec == Init /\ [][Next]_vars

\* two callers on one session
InitConc ==
    /\ CONTEXT_RETENTION \in BOOLEAN
    /\ MAX_CONTEXT \in ContextLengths
    /\ GROQ_API_KEY \in ApiKeys
    /\ session = "absent"
    /\ check_groq_key = TRUE
    /\ config = Unset
    /\ token_count = Unset
    /\ token_count_last = Unset
    /\ messages = Unset
    /\ tasks = [t \in ConcurrentTasks |-> IdleTask]
    /\ history = <<>>
    /\ received = <<>>
    /\ calls = 0
    /\ netFailure = None
    /\ overlapped = FALSE
    /\ cl_payload = <<>>
    /\ cl_shape = "bare"
    /\ cl_done = FALSE
    /\ cl_out = <<>>
    /\ cl_cleaned = <<>>
    /\ cl_redone = FALSE
    /\ cl_again = <<>>
    /\ cf_key = "temperature"
    /\ cf_supplied = FALSE
    /\ cf_ns = <<>>
    /\ cf_bare = <<>>
    /\ cf_other = FALSE
    /\ cf_done = FALSE
    /\ cf_out = <<>>

\* what the two callers pass in: one language, one snippet per invocation
ConcLanguages == { <<"English">> }
ConcQueries == { <<x>> : x \in Snippets }
ConcFailures == { "APITimeoutError" }

NextConc ==
    \/ \E check \in BOOLEAN : Construct(check)
    \/ ParseArgs
    \/ \E t \in Tasks, l \in ConcLanguages, q \in ConcQueries : StartTranslate(t, l, q)
    \/ \E t \in Tasks : SendRequest(t)
    \/ \E t \in Tasks, r \in Replies, u \in UsageTotals : ReceiveResponse(t, r, u)
    \/ \E t \in Tasks, e \in ConcFailures : RequestFails(t, e)
    \/ \E t \in Tasks : Return(t)

SpecConc == InitConc /\ [][NextConc]_vars

\* every property read from every bounded settings object
InitConfig ==
    /\ CONTEXT_RETENTION = FALSE
    /\ MAX_CONTEXT = 0
    /\ GROQ_API_KEY = ""
    /\ session = "absent"
    /\ check_groq_key = TRUE
    /\ config = Unset
    /\ token_count = Unset
    /\ token_count_last = Unset
    /\ messages = Unset
    /\ tasks = [t \in SerialTasks |-> IdleTask]
    /\ history = <<>>
    /\ received = <<>>
    /\ calls = 0
    /\ netFailure = None
    /\ overlapped = FALSE
    /\ cl_payload = <<>>
    /\ cl_shape = "bare"
    /\ cl_done = FALSE
    /\ cl_out = <<>>
    /\ cl_cleaned = <<>>
    /\ cl_redone = FALSE
    /\ cl_again = <<>>
    /\ cf_key \in ConfigKeys
    /\ cf_supplied \in BOOLEAN
    /\ cf_ns \in (IF cf_supplied THEN Options ELSE { <<>> })
    /\ cf_bare \in (IF cf_supplied THEN Options ELSE { <<>> })
    /\ cf_other \in (IF cf_supplied THEN BOOLEAN ELSE {FALSE})
    /\ cf_done = FALSE
    /\ cf_out = <<>>

NextConfig == ConfigStep

SpecConfig == InitConfig /\ [][NextConfig]_vars

\* the clean-up applied to every bounded reply
InitClean ==
    /\ CONTEXT_RETENTION = FALSE
    /\ MAX_CONTEXT = 0
    /\ GROQ_API_KEY = ""
    /\ session = "absent"
    /\ check_groq_key = TRUE
    /\ config = Unset
    /\ token_count = Unset
    /\ token_count_last = Unset
    /\ messages = Unset
    /\ tasks = [t \in SerialTasks |-> IdleTask]
    /\ history = <<>>
    /\ received = <<>>
    /\ calls = 0
    /\ netFailure = None
    /\ overlapped = FALSE
    /\ cl_payload \in Payloads
    /\ cl_shape \in Shapes
    /\ cl_done = FALSE
    /\ cl_out = <<>>
    /\ cl_cleaned = <<>>
    /\ cl_redone = FALSE
    /\ cl_again = <<>>
    /\ cf_key = "temperature"
    /\ cf_supplied = FALSE
    /\ cf_ns = <<>>
    /\ cf_bare = <<>>
    /\ cf_other = FALSE
    /\ cf_done = FALSE
    /\ cf_out = <<>>

NextClean == CleanStep \/ CleanAgain

SpecClean == InitClean /\ [][NextClean]_vars

\* ------------------------------------------------------------------ claims
IsSuffixOf(w, h) == Len(w) <= Len(h) /\ SubSeq(h, Len(h) - Len(w) + 1, Len(h)) = w

Last(s) == s[Len(s)]

\* a per-string call of task t has just returned successfully
AfterCall(t) == tasks[t].pc \in {"loop", "returned"} /\ tasks[t].got # <<>>

\* the window part of the request task t has outstanding
SentWindow(t) == Tail(tasks[t].sent)

\* C1: once more than MAX_CONTEXT calls have completed, the window holds at
\* most MAX_CONTEXT entries, in the request that is sent and after the call
\* returns, and they are the most recent entries of the exchange history in
\* their order.
C1_WindowBound ==
    (session = "usable" /\ Len(received) > MAX_CONTEXT) =>
        /\ Len(messages) <= MAX_CONTEXT
        /\ IsSuffixOf(messages, history)
        /\ \A t \in Tasks : tasks[t].pc = "await" => Len(SentWindow(t)) <= MAX_CONTEXT

\* the assistant entries of the window that the current call of task t added
AddedAssistant(t) ==
    { k \in 1..Len(messages) :
        messages[k].role = "assistant" /\ messages[k].by = tasks[t].call }

\* C2 as stated: after a successful call the window holds an assistant entry
\* added by that call iff retention is enabled; then there is exactly one, it
\* is the last entry, and its content is the raw provider reply.
C2_RetentionRawReply ==
    \A t \in Tasks : AfterCall(t) =>
        IF CONTEXT_RETENTION
        THEN /\ AddedAssistant(t) = {Len(messages)}
             /\ Len(messages) >= 1
             /\ Last(messages).content = Last(tasks[t].got).reply
        ELSE AddedAssistant(t) = {}

\* C2 amended: ... and its content is the provider reply with the surrounding
\* whitespace stripped (still before the clean-up).
C2_RetentionToggle ==
    \A t \in Tasks : AfterCall(t) =>
        IF CONTEXT_RETENTION
        THEN /\ AddedAssistant(t) = {Len(messages)}
             /\ Len(messages) >= 1
             /\ Last(messages).content = Strip(Last(tasks[t].got).reply)
        ELSE AddedAssistant(t) = {}

\* a call with retention returned a reply that strip() shortens, after an
\* earlier call on the same session
C2_Witness ==
    \E t \in Tasks :
        /\ AfterCall(t) /\ CONTEXT_RETENTION /\ tasks[t].call = 2
        /\ Last(tasks[t].got).reply = ReplyBare
        /\ Last(messages).content = <<"H", "i">>

\* C3: the lifetime counter is the sum of the usage totals of all responses
\* this session received, the last-call counter is the usage total of the
\* most recent one, both are 0 before the first, and only a construction
\* resets them.
C3_TokenAccounting ==
    session = "usable" =>
        /\ token_count = SumSeq(received)
        /\ token_count_last = (IF received = <<>> THEN 0 ELSE Last(received))

\* two invocations of one call each got usage totals 2 and then 1
C3_Witness ==
    /\ session = "usable" /\ received = <<2, 1>>
    /\ \E t \in Tasks : tasks[t].pc = "returned" /\ Len(tasks[t].queries) = 1
    /\ token_count = 3 /\ token_count_last = 1

\* C4: translate returns exactly one string per input, in input order, the
\* i-th being the cleaned, whitespace-trimmed reply to the request made for
\* the i-th input.
C4_TranslateResult ==
    \A t \in Tasks : tasks[t].pc = "returned" =>
        LET task == tasks[t]
        IN  /\ Len(task.translations) = Len(task.queries)
            /\ Len(task.got) = Len(task.queries)
            /\ \A i \in 1..Len(task.queries) :
                 /\ task.got[i].prompt = task.queries[i]
                 /\ task.translations[i] = Strip(CleanContent(Strip(task.got[i].reply)))

\* two different snippets were answered by two different replies
C4_Witness ==
    \E t \in Tasks :
        /\ tasks[t].pc = "returned"
        /\ tasks[t].queries = << <<"konnichiwa">>, <<"arigatou">> >>
        /\ tasks[t].got[1].reply = ReplyHello
        /\ tasks[t].got[2].reply = ReplyBare
        /\ tasks[t].translations = << Hello, <<"H", "i">> >>

FewShotPair == << Msg("user", CHAT_SAMPLE[1], 0), Msg("assistant", CHAT_SAMPLE[2], 0) >>

BeginsWithFewShot(w) == Len(w) >= 2 /\ SubSeq(w, 1, 2) = FewShotPair

\* user, assistant, user, assistant, ...
AlternatesFromUser(w) ==
    \A k \in 1..Len(w) : w[k].role = (IF k % 2 = 1 THEN "user" ELSE "assistant")

\* only user and assistant entries, never two of the same role in a row
AdjacentRolesDiffer(w) ==
    /\ \A k \in 1..Len(w) : w[k].role \in {"user", "assistant"}
    /\ \A k \in 1..(Len(w) - 1) : w[k].role # w[k + 1].role

\* C5 as stated: every request is one system message followed by the trimmed
\* window, and the window part alternates user/assistant and begins with the
\* few-shot pair.
C5_RequestBeginsWithFewShot ==
    \A t \in Tasks : tasks[t].pc = "await" =>
        /\ Len(tasks[t].sent) >= 1
        /\ tasks[t].sent[1].role = "system"
        /\ SentWindow(t) = messages
        /\ AlternatesFromUser(SentWindow(t))
        /\ BeginsWithFewShot(SentWindow(t))

\* C5 amended: every request is one system message followed by the trimmed
\* window; the window part holds user and assistant entries only, no two
\* neighbours have the same role, its last entry is the continuation seed,
\* and it begins with the few-shot pair exactly as long as trimming has not
\* evicted an entry.
C5_RequestShape ==
    \A t \in Tasks : tasks[t].pc = "await" =>
        /\ Len(tasks[t].sent) >= 1
        /\ tasks[t].sent[1].role = "system"
        /\ SentWindow(t) = messages
        /\ AdjacentRolesDiffer(SentWindow(t))
        /\ SentWindow(t) # <<>> =>
             /\ Last(SentWindow(t)).role = "assistant"
             /\ Last(SentWindow(t)).content = SEED
        /\ BeginsWithFewShot(SentWindow(t)) <=> SentWindow(t) = history

\* a request whose window lost the few-shot user message and starts with an
\* assistant entry
C5_Witness ==
    \E t \in Tasks :
        /\ tasks[t].pc = "await"
        /\ Len(SentWindow(t)) = 3
        /\ SentWindow(t)[1] = FewShotPair[2]
        /\ ~BeginsWithFewShot(SentWindow(t))

\* sub occurs in text
Contains(text, sub) ==
    \E k \in 1..(Len(text) - Len(sub) + 1) : SubSeq(text, k, k + Len(sub) - 1) = sub

\* the system template with the placeholder replaced by L
TemplateFor(L) ==
    <<CHAT_SYSTEM_TEMPLATE[1], CHAT_SYSTEM_TEMPLATE[2]>> \o L \o <<CHAT_SYSTEM_TEMPLATE[4]>>

\* the request of task t starts with the system message for its language
StartsWithSystem(t) ==
    /\ Len(tasks[t].sent) >= 1
    /\ tasks[t].sent[1].role = "system"
    /\ tasks[t].sent[1].content = TemplateFor(tasks[t].to_lang)

\* the request of task t ends with the user message embedding its snippet and
\* then the seed
EndsWithPromptAndSeed(t) ==
    LET m == tasks[t].sent
        n == Len(m)
    IN  /\ n >= 3
        /\ m[n - 1].role = "user"
        /\ Contains(m[n - 1].content, tasks[t].prompt)
        /\ Contains(m[n - 1].content, tasks[t].to_lang)
        /\ m[n].role = "assistant"
        /\ m[n].content = SEED

\* C6 as stated: for every context length, the request starts with the system
\* message for L, its final user message embeds s, and the seed follows it as
\* the last message.
C6_RequestEndsWithPromptAnyLength ==
    \A t \in Tasks : tasks[t].pc = "await" =>
        StartsWithSystem(t) /\ EndsWithPromptAndSeed(t)

\* C6 amended: the request always starts with the system message for L; when
\* the context length is 0 or at least 2 its final user message embeds s and
\* the seed follows it as the last message; with a context length of 1 the
\* request is the system message and the seed alone.
C6_RequestEnds ==
    \A t \in Tasks : tasks[t].pc = "await" =>
        /\ StartsWithSystem(t)
        /\ MAX_CONTEXT # 1 => EndsWithPromptAndSeed(t)
        /\ MAX_CONTEXT = 1 =>
             /\ Len(tasks[t].sent) = 2
             /\ tasks[t].sent[2].role = "assistant"
             /\ tasks[t].sent[2].content = SEED

\* the second request of a session with a context length of 2, for French
C6_Witness ==
    \E t \in Tasks :
        /\ tasks[t].pc = "await"
        /\ MAX_CONTEXT = 2
        /\ tasks[t].call = 2
        /\ tasks[t].to_lang = <<"French">>
        /\ Len(tasks[t].sent) = 3
        /\ EndsWithPromptAndSeed(t)

\* 1, 2, ..., n
Ascending(s) == \A k \in 1..Len(s) : s[k] = k

\* C7: when the request for the j-th snippet fails, translate raises that same
\* failure, the failing request is not issued again, and no request is issued
\* for a later snippet.
C7_FailurePropagates ==
    \A t \in Tasks : tasks[t].exc # None =>
        /\ tasks[t].pc = "raised"
        /\ tasks[t].exc = netFailure
        /\ tasks[t].inflight = 0
        /\ Ascending(tasks[t].issued)
        /\ Len(tasks[t].issued) = Len(tasks[t].translations) + 1
        /\ Len(tasks[t].issued) <= Len(tasks[t].queries)

\* the request for the first of two snippets timed out
C7_Witness ==
    \E t \in Tasks :
        /\ tasks[t].pc = "raised"
        /\ tasks[t].exc = "APITimeoutError"
        /\ Len(tasks[t].queries) = 2
        /\ tasks[t].issued = <<1>>

\* C8: one request per snippet, in input order; the next one is issued only
\* after the response to the previous one was received and the window and the
\* counters were updated; at most one request of the invocation is in flight.
C8_OneAtATime ==
    \A t \in Tasks :
        LET task == tasks[t]
            n    == Len(task.issued)
        IN  /\ Ascending(task.issued)
            /\ task.inflight = (IF task.pc = "await" THEN 1 ELSE 0)
            /\ task.pc = "await" =>
                 /\ Len(task.got) = n - 1
                 /\ Len(task.translations) = n - 1
                 /\ task.prompt = task.queries[n]
                 /\ token_count = SumSeq(received)
                 /\ \A k \in 1..Len(messages) :
                      (messages[k].content = SEED /\ messages[k].by > task.call - n)
                          => messages[k].by = task.call
            /\ task.pc = "returned" =>
                 /\ n = Len(task.queries)
                 /\ Len(task.got) = n

\* the second request of an invocation is outstanding
C8_Witness ==
    \E t \in Tasks :
        /\ tasks[t].pc = "await"
        /\ tasks[t].issued = <<1, 2>>
        /\ Len(tasks[t].got) = 1
        /\ tasks[t].inflight = 1

\* C9: a construction that asks for the credential check while no credential
\* is configured fails before any request is issued and leaves no session:
\* no window, no counters.
C9_MissingCredential ==
    (session # "absent" /\ check_groq_key /\ GROQ_API_KEY = "") =>
        /\ session = "failed"
        /\ messages = Unset
        /\ token_count = Unset
        /\ token_count_last = Unset
        /\ calls = 0
        /\ \A t \in Tasks : tasks[t].pc = "idle"

\* such a construction has failed
C9_Witness == session = "failed" /\ check_groq_key /\ GROQ_API_KEY = ""

\* neither quote, brace nor backslash, and no whitespace at either end
Eligible(T) ==
    /\ \A k \in 1..Len(T) : T[k] \notin {"'", "\"", "{", "}", "\\"}
    /\ T # <<>> => (T[1] \notin Whitespace /\ T[Len(T)] \notin Whitespace)

\* C10: for such a payload T the replies {'translated':'T'} and
\* {'translated':'T'}} both come out as exactly T.
C10_CleanRoundTrip ==
    (cl_done /\ cl_shape \in {"object", "object}"} /\ Eligible(cl_payload)) =>
        cl_out = cl_payload

\* {'translated':'Hello'}} came out as Hello
C10_Witness == cl_done /\ cl_shape = "object}" /\ cl_payload = Hello /\ cl_out = Hello

\* no brace, no quote of either kind and no {'translated':' prefix
AlreadyClean(T) ==
    /\ \A k \in 1..Len(T) : T[k] \notin {"{", "}", "'", "\""}
    /\ ~Contains(T, SEED)

\* C11: the clean-up of line 169 returns an already-clean string unchanged, so
\* cleaning the result of cleaning such a string changes nothing.
C11_CleanIdempotent ==
    (cl_done /\ cl_shape = "bare" /\ AlreadyClean(cl_payload)) =>
        /\ cl_cleaned = cl_payload
        /\ cl_redone => cl_again = cl_payload

\* a clean string with a blank and a backslash went through the clean-up twice
C11_Witness ==
    /\ cl_redone
    /\ cl_shape = "bare"
    /\ cl_payload = <<" ", "\\", "a">>
    /\ cl_again = <<" ", "\\", "a">>

\* the entries of the window that the current call of task t added
AddedByCall(t) == { k \in 1..Len(messages) : messages[k].by = tasks[t].call }

\* C12 as stated: without retention, where trimming leaves room for it, the
\* user prompt of a successful call persists: after the call the last entry of
\* the window is the user message built for that call.
C12_PromptPersists ==
    \A t \in Tasks :
        (~CONTEXT_RETENTION /\ AfterCall(t) /\ MAX_CONTEXT # 1) =>
            /\ messages # <<>>
            /\ Last(messages).role = "user"
            /\ Last(messages).by = tasks[t].call
            /\ Contains(Last(messages).content, tasks[t].prompt)

\* C12 amended: without retention nothing of a successful call persists,
\* neither its user prompt nor an assistant turn; after the call the window
\* holds only entries it held before the call, so its last entry, if any, is
\* the last entry it had before the call.
C12_NothingPersists ==
    \A t \in Tasks :
        (~CONTEXT_RETENTION /\ AfterCall(t)) =>
            /\ AddedByCall(t) = {}
            /\ IsSuffixOf(messages, tasks[t].before)
            /\ messages # <<>> => Last(messages) = Last(tasks[t].before)

\* without retention the second call of a session returned and the window ends
\* with the few-shot assistant message
C12_Witness ==
    \E t \in Tasks :
        /\ ~CONTEXT_RETENTION /\ AfterCall(t)
        /\ tasks[t].call = 2
        /\ MAX_CONTEXT = 0
        /\ messages = FewShotPair

\* C13 as stated: without retention, for every context length and window, a
\* successful call leaves the window as long as it was before the call, and
\* no entry other than the two appended ones is lost.
C13_WindowReverts ==
    \A t \in Tasks :
        (~CONTEXT_RETENTION /\ AfterCall(t)) =>
            /\ Len(messages) = Len(tasks[t].before)
            /\ messages = tasks[t].before

\* C13 amended: without retention a successful call returns the window to its
\* pre-call content when the window with the two appended entries fits the
\* context length (or the context length is 0); otherwise the trim has evicted
\* the oldest entries for good and the window is left with the most recent
\* max(N - 2, 0) of its pre-call entries.
C13_WindowRevertsIfFits ==
    \A t \in Tasks :
        (~CONTEXT_RETENTION /\ AfterCall(t)) =>
            IF MAX_CONTEXT = 0 \/ Len(tasks[t].before) + 2 <= MAX_CONTEXT
            THEN messages = tasks[t].before
            ELSE /\ IsSuffixOf(messages, tasks[t].before)
                 /\ Len(messages) = Max(MAX_CONTEXT - 2, 0)

\* with a context length of 3 the second call found one entry, fitted, and
\* left that one entry
C13_Witness ==
    \E t \in Tasks :
        /\ ~CONTEXT_RETENTION /\ AfterCall(t)
        /\ MAX_CONTEXT = 3
        /\ tasks[t].call = 2
        /\ Len(tasks[t].before) = 1
        /\ messages = tasks[t].before

\* C14: whenever no request is outstanding, the window holds no message whose
\* content is the continuation seed.
C14_SeedNeverPersists ==
    (session = "usable" /\ \A t \in Tasks : tasks[t].pc # "await") =>
        \A k \in 1..Len(messages) : messages[k].content # SEED

\* the usage totals of the replies task t got
RECURSIVE SumUsage(_)
SumUsage(got) == IF got = <<>> THEN 0 ELSE got[1].usage + SumUsage(Tail(got))

\* the last n entries of s, all of s when it has fewer
LastN(s, n) == IF Len(s) <= n THEN s ELSE SubSeq(s, Len(s) - n + 1, Len(s))

\* C16: when translate raises because the request for the j-th snippet failed,
\* the counters hold what the j-1 successful calls before it produced, the
\* window keeps the effects of those calls, and the user message and the seed
\* of the j-th call are still in the window, as far as the trim left them.
C16_FailureNotRolledBack ==
    \A t \in Tasks : tasks[t].pc = "raised" =>
        LET task == tasks[t]
            j    == Len(task.issued)
            full == task.before \o
                      << [role |-> "user",
                          content |-> PromptWithLang(task.to_lang, task.queries[j]),
                          by |-> task.call],
                         [role |-> "assistant", content |-> SEED, by |-> task.call] >>
        IN  /\ Len(task.got) = j - 1
            /\ token_count = task.atStart.token_count + SumUsage(task.got)
            /\ token_count_last = (IF task.got = <<>> THEN task.atStart.token_count_last
                                   ELSE Last(task.got).usage)
            /\ messages = (IF MAX_CONTEXT = 0 THEN full ELSE LastN(full, MAX_CONTEXT))
            /\ (CONTEXT_RETENTION /\ j >= 2) =>
                 /\ task.before # <<>>
                 /\ Last(task.before).content = Strip(task.got[j - 1].reply)

\* with retention and a context length of 3 the second request failed: the
\* window is the first reply, the second prompt and the seed
C16_Witness ==
    \E t \in Tasks :
        /\ tasks[t].pc = "raised"
        /\ CONTEXT_RETENTION /\ MAX_CONTEXT = 3
        /\ Len(tasks[t].got) = 1
        /\ Len(messages) = 3
        /\ messages[1].content = Strip(tasks[t].got[1].reply)
        /\ messages[2].role = "user"
        /\ messages[3].content = SEED
        /\ token_count = tasks[t].got[1].usage

\* C18: translate of an empty list returns an empty list, issues no request
\* and leaves the window and both counters as they were.
C18_EmptyInput ==
    \A t \in Tasks : (tasks[t].pc = "returned" /\ tasks[t].queries = <<>>) =>
        /\ tasks[t].translations = <<>>
        /\ tasks[t].issued = <<>>
        /\ calls = tasks[t].atStart.calls
        /\ messages = tasks[t].atStart.messages
        /\ token_count = tasks[t].atStart.token_count
        /\ token_count_last = tasks[t].atStart.token_count_last

\* an empty translate returned on a session that had already made a call with
\* retention
C18_Witness ==
    \E t \in Tasks :
        /\ tasks[t].pc = "returned" /\ tasks[t].queries = <<>>
        /\ CONTEXT_RETENTION
        /\ calls = 1
        /\ token_count = 2
        /\ messages # FewShotPair

\* a window that calls made one after the other leave behind: no seed; with
\* retention every prompt of a call is followed by the reply of that call and
\* every reply is preceded by its prompt (unless the trim cut it off); without
\* retention nothing of any call
SerialWindow(w) ==
    /\ \A k \in 1..Len(w) : w[k].content # SEED
    /\ IF CONTEXT_RETENTION
       THEN \A k \in 1..Len(w) : w[k].by >= 1 =>
                IF w[k].role = "user"
                THEN k < Len(w) /\ w[k + 1].role = "assistant" /\ w[k + 1].by = w[k].by
                ELSE k = 1 \/ (w[k - 1].role = "user" /\ w[k - 1].by = w[k].by)
       ELSE \A k \in 1..Len(w) : w[k].by = 0

Quiescent == session = "usable" /\ \A t \in Tasks : tasks[t].pc # "await"

\* C15: two invocations on one session that interleave around the awaited
\* request can leave a window that calls made one after the other never
\* leave: as long as no request failed and none was sent while another was
\* outstanding the window is a serial one; the witness is an interleaved run
\* that ends with a window that is not.
C15_OnlyInterleavingBreaksWindow ==
    (Quiescent /\ netFailure = None /\ ~overlapped) => SerialWindow(messages)

\* both invocations returned, no request failed, and the window still holds
\* the seed of the first call while the reply of the first call is gone
C15_Witness ==
    /\ Quiescent /\ netFailure = None /\ overlapped
    /\ CONTEXT_RETENTION /\ MAX_CONTEXT = 0
    /\ \A t \in Tasks : tasks[t].pc = "returned"
    /\ ~SerialWindow(messages)
    /\ \E k \in 1..Len(messages) : messages[k].content = SEED /\ messages[k].by = 1
    /\ \A k \in 1..Len(messages) :
         (messages[k].role = "assistant" /\ messages[k].content # SEED) => messages[k].by # 1

\* C17: also when the calls of several invocations interleave, once no request
\* is outstanding the lifetime counter is the sum of the usage totals of all
\* responses and the last-call counter is the usage total of the response
\* processed last.
C17_CountersUnderInterleaving ==
    Quiescent =>
        /\ token_count = SumSeq(received)
        /\ received # <<>> => token_count_last = Last(received)
        /\ received = <<>> => token_count_last = 0

\* two overlapping calls were answered with usage totals 2 and then 1
C17_Witness ==
    /\ Quiescent /\ overlapped
    /\ \A t \in Tasks : tasks[t].pc = "returned" /\ Len(tasks[t].got) = 1
    /\ received = <<2, 1>>
    /\ token_count = 3 /\ token_count_last = 1

\* the hard-coded default of a property
DefaultOf(key) ==
    CASE key = "chat_system_template" -> CHAT_SYSTEM_TEMPLATE
      [] key = "chat_sample"          -> CHAT_SAMPLE
      [] key = "temperature"          -> 3
      [] key = "top_p"                -> 8

\* C19: each of the four properties is the value under "groq.<key>" if the
\* settings object has one, else the value under "<key>" if it has one, else
\* the hard-coded default; without a settings object it is the default.
C19_ThreeTiers ==
    cf_done =>
        cf_out = (IF ~cf_supplied THEN DefaultOf(cf_key)
                  ELSE IF cf_ns # <<>> THEN ConfiguredValue(cf_key, "groq.key", cf_ns[1])
                  ELSE IF cf_bare # <<>> THEN ConfiguredValue(cf_key, "key", cf_bare[1])
                  ELSE DefaultOf(cf_key))

\* the few-shot pair was read from an object holding both keys and the value
\* under the namespaced key came back
C19_Witness ==
    /\ cf_done /\ cf_supplied
    /\ cf_key = "chat_sample"
    /\ cf_ns = <<2>> /\ cf_bare = <<1>> /\ cf_other
    /\ cf_out = ConfiguredValue("chat_sample", "groq.key", 2)

====
